---- MODULE Spec2Model ----
(***************************************************************************)
(* State-machine model of LazyLoader (src/lazy_loader.py).                 *)
(*                                                                         *)
(* One loader object is modelled together with the part of its environment *)
(* that its methods touch: the source rasters (native CRS, bounds and      *)
(* resolution per path) and the process-wide temporary directory in which  *)
(* init() writes one VRT per source.  Every public method is one action;   *)
(* the variables op/err/reads/nyield/pre_init record what the last call     *)
(* was, what it returned or raised, and which windowed reads it made.      *)
(***************************************************************************)
EXTENDS Integers, Sequences, FiniteSets

VARIABLES
    limit,        \* self.limit: (max_width, max_height)
    reference,    \* self._reference: a LazyLoaderRefer record or None
    sig_init,     \* self.sig_init
    files,        \* self.files: dict date -> path, kept in insertion order
    sorted_files, \* self.sorted_files
    vrt_files,    \* self.vrt_files
    blocks,       \* self.blocks
    tmp,          \* tempfile.gettempdir(): VRT path -> what was warped into it
    op,           \* name of the last method called
    err,          \* "none" or the kind of exception it raised
    reads,        \* windowed reads the last call performed, in order
    nyield,       \* number of stacks the last iteration yielded
    pre_init,     \* value of sig_init when the last method was entered
    peer_vrt_files \* vrt_files of a second LazyLoader of the same process

loader == <<limit, reference, sig_init, files, sorted_files, vrt_files, blocks>>
vars == <<limit, reference, sig_init, files, sorted_files, vrt_files, blocks,
          tmp, op, err, reads, nyield, pre_init, peer_vrt_files>>

----------------------------------------------------------------------------
(* Bounds of the model *)

\* calendar dates are 1..MaxDate
MaxDate == 2
\* init() is not called once it would make vrt_files longer than this
MaxViews == 2

\* catalogs of the reference-resolution runs hold up to MaxSources files
MaxSources == 3
\* reference shapes of the tile-planning runs have sides 1..MaxSide
MaxSide == 4
\* and their limits have components 1..MaxLimit
MaxLimit == 3

Dates == 1..MaxDate

----------------------------------------------------------------------------
(* The environment: source rasters on disk *)

\* the value of self._reference before any reference is set
None == [none |-> TRUE]

\* a path is <<directory, base name>>; the directories a caller scans
Dirs == {1}

\* src.crs of the raster at a path (an EPSG code)
CrsOf(path) == IF path[1] = 1 THEN 1 ELSE 2

\* src.bounds of the raster at a path: <<left, bottom, right, top>>
BoundsOf(path) == IF path[1] = 1 THEN <<0, 0, 3, 2>> ELSE <<1, 0, 5, 3>>

\* src.res of the raster at a path
ResOf(path) == IF path[1] = 1 THEN <<1, 1>> ELSE <<2, 2>>

\* rasterio.warp.transform_bounds: a change of CRS moves the coordinates
TransformBounds(src_crs, dst_crs, b) ==
    <<b[1] + (dst_crs - src_crs), b[2], b[3] + (dst_crs - src_crs), b[4]>>

\* CRS.to_string()
to_string(crs) == IF crs = 1 THEN "EPSG:1" ELSE "EPSG:2"

\* rasterio.transform.from_origin(west, north, xsize, ysize)
FromOrigin(west, north, xsize, ysize) == <<xsize, 0, west, 0, 0 - ysize, north>>

\* LazyLoaderRefer(crs, transform, shape, bounds, res)
LazyLoaderRefer(crs, transform, shape, bounds, res) ==
    [crs |-> crs, transform |-> transform, shape |-> shape,
     bounds |-> bounds, res |-> res]

\* the references a caller hands to setReference
RefInputs ==
    { LazyLoaderRefer("EPSG:2", FromOrigin(0, 4, 1, 1), <<4, 4>>, <<0, 0, 4, 4>>, <<1, 1>>) }

\* the limits a loader is constructed with
Limits == { <<2, 2>> }

\* the tile indices a caller passes to getBlock
TileIndices == { <<0, 0>>, <<1, 1>> }

\* a directory entry: base name, whether it is a file ending in .tif, and
\* the date strptime parses from the name (0: the name does not match)
Entries == [base : {1, 2}, tif : {TRUE}, date : Dates]
             \cup { [base |-> 2, tif |-> TRUE, date |-> 0],
                    [base |-> 2, tif |-> FALSE, date |-> 0] }

\* the listings os.scandir returns: the empty directory, one entry, two
\* files of different dates (the later date listed first or second), and
\* two entries of which strptime rejects the second
Scans == {<<>>} \cup { <<e>> : e \in Entries }
           \cup { p \in { g \in Entries : g.date # 0 } \X { g \in Entries : g.date # 0 } :
                    p[1].base = 1 /\ p[2].base = 2 /\ p[1].date # p[2].date }
           \cup { <<e, [base |-> 2, tif |-> TRUE, date |-> 0]>> :
                    e \in { g \in Entries : g.base = 1 } }

----------------------------------------------------------------------------
(* Helpers *)

Min(a, b) == IF a <= b THEN a ELSE b

\* self.files[k] = v on an insertion-ordered dict
DictSet(d, k, v) ==
    IF \E i \in 1..Len(d) : d[i].date = k
    THEN [i \in 1..Len(d) |-> IF d[i].date = k THEN [date |-> k, path |-> v] ELSE d[i]]
    ELSE Append(d, [date |-> k, path |-> v])

\* self.files.values()
Values(d) == [i \in 1..Len(d) |-> d[i].path]

\* sorted(self.files): the keys in ascending order
RECURSIVE SortedKeys(_)
SortedKeys(ks) ==
    IF ks = {} THEN <<>>
    ELSE LET m == CHOOSE x \in ks : \A y \in ks : x <= y
         IN <<m>> \o SortedKeys(ks \ {m})

Keys(d) == { d[i].date : i \in 1..Len(d) }

\* os.path.join(tempfile.gettempdir(), os.path.basename(path) + ".vrt")
VrtPath(path) == <<"tmp", path[2]>>

----------------------------------------------------------------------------
(* __init__ *)

Init ==
    /\ limit \in Limits
    /\ reference = None
    /\ sig_init = FALSE
    /\ files = <<>>
    /\ sorted_files = <<>>
    /\ vrt_files = <<>>
    /\ blocks = <<>>
    /\ tmp = <<>>
    /\ op = "__init__"
    /\ err = "none"
    /\ reads = <<>>
    /\ nyield = 0
    /\ pre_init = FALSE
    /\ peer_vrt_files = <<>>

----------------------------------------------------------------------------
(* addFilesFromPath *)

\* index of the first entry of the listing on which strptime raises
FirstBad(scan) ==
    LET bad == { i \in 1..Len(scan) : scan[i].tif /\ scan[i].date = 0 }
    IN IF bad = {} THEN Len(scan) + 1 ELSE CHOOSE i \in bad : \A j \in bad : i <= j

\* the loop of addFilesFromPath over the first n entries of the listing
RECURSIVE ScanLoop(_, _, _, _)
ScanLoop(d, dir, scan, n) ==
    IF n = 0 THEN d
    ELSE LET before == ScanLoop(d, dir, scan, n - 1)
             entry == scan[n]
         IN IF entry.tif
            THEN DictSet(before, entry.date, <<dir, entry.base>>)
            ELSE before

\* addFilesFromPath clearing sig_init only when the catalog changed
addFilesFromPath_ClearOnChange(dir, readable, scan) ==
    /\ op' = "addFilesFromPath"
    /\ pre_init' = sig_init
    /\ reads' = <<>>
    /\ nyield' = 0
    /\ IF ~readable
       THEN /\ err' = "path"
            /\ UNCHANGED <<files, sig_init>>
       ELSE /\ files' = ScanLoop(files, dir, scan, FirstBad(scan) - 1)
            /\ IF FirstBad(scan) <= Len(scan)
               THEN /\ err' = "format"
                    /\ UNCHANGED sig_init
               ELSE /\ err' = "none"
                    /\ sig_init' = IF files' # files THEN FALSE ELSE sig_init
    /\ UNCHANGED <<limit, reference, sorted_files, vrt_files, blocks, tmp, peer_vrt_files>>

\* readable: whether os.scandir can list the directory
addFilesFromPath(dir, readable, scan) ==
    /\ op' = "addFilesFromPath"
    /\ pre_init' = sig_init
    /\ reads' = <<>>
    /\ nyield' = 0
    /\ IF ~readable
       THEN /\ err' = "path"
            /\ UNCHANGED <<files, sig_init>>
       ELSE /\ files' = ScanLoop(files, dir, scan, FirstBad(scan) - 1)
            /\ IF FirstBad(scan) <= Len(scan)
               THEN /\ err' = "format"
                    /\ UNCHANGED sig_init
               ELSE /\ err' = "none"
                    /\ sig_init' = FALSE
    /\ UNCHANGED <<limit, reference, sorted_files, vrt_files, blocks, tmp, peer_vrt_files>>

----------------------------------------------------------------------------
(* setReference *)

setReference(ref) ==
    /\ op' = "setReference"
    /\ pre_init' = sig_init
    /\ err' = "none"
    /\ reads' = <<>>
    /\ nyield' = 0
    /\ reference' = ref
    /\ UNCHANGED <<limit, sig_init, files, sorted_files, vrt_files, blocks, tmp, peer_vrt_files>>

----------------------------------------------------------------------------
(* getReferenceFromFiles *)

\* crs_list.count(c)
Count(crs_list, c) == Cardinality({ i \in 1..Len(crs_list) : crs_list[i] = c })

\* the last element with the largest count instead of the first
MaxByCount_Last(crs_list) ==
    LET best == { i \in 1..Len(crs_list) :
                    \A j \in 1..Len(crs_list) :
                        Count(crs_list, crs_list[j]) <= Count(crs_list, crs_list[i]) }
        last == CHOOSE i \in best : \A j \in best : j <= i
    IN crs_list[last]

\* max(crs_list, key=crs_list.count): the first element with the largest count
MaxByCount(crs_list) ==
    LET best == { i \in 1..Len(crs_list) :
                    \A j \in 1..Len(crs_list) :
                        Count(crs_list, crs_list[j]) <= Count(crs_list, crs_list[i]) }
        first == CHOOSE i \in best : \A j \in best : i <= j
    IN crs_list[first]

\* bounds of one source in the target crs
TargetBounds(path, target_crs) ==
    IF CrsOf(path) # target_crs
    THEN TransformBounds(CrsOf(path), target_crs, BoundsOf(path))
    ELSE BoundsOf(path)

SeqMin(s) == CHOOSE x \in { s[i] : i \in 1..Len(s) } : \A i \in 1..Len(s) : x <= s[i]
SeqMax(s) == CHOOSE x \in { s[i] : i \in 1..Len(s) } : \A i \in 1..Len(s) : x >= s[i]

\* round(a / b) for a >= 0, b > 0: the nearest integer, a tie going to the
\* even one
Round(a, b) ==
    LET q == a \div b
        r == a % b
    IN IF 2 * r < b THEN q
       ELSE IF 2 * r > b THEN q + 1
       ELSE IF q % 2 = 0 THEN q ELSE q + 1

\* the pixel count rounded to the nearest integer instead of truncated
IntDiv_Round(a, b) == Round(a, b)

\* int(a / b): float division truncated toward zero
IntDiv(a, b) == IF a >= 0 THEN a \div b ELSE 0 - ((0 - a) \div b)

\* the reference getReferenceFromFiles computes from a non-empty catalog
ReferenceFromFiles(d) ==
    LET paths == Values(d)
        crs_list == [i \in 1..Len(paths) |-> CrsOf(paths[i])]
        target_crs == MaxByCount(crs_list)
        target_bounds == [i \in 1..Len(paths) |-> TargetBounds(paths[i], target_crs)]
        target_left == SeqMin([i \in 1..Len(paths) |-> target_bounds[i][1]])
        target_bottom == SeqMin([i \in 1..Len(paths) |-> target_bounds[i][2]])
        target_right == SeqMax([i \in 1..Len(paths) |-> target_bounds[i][3]])
        target_top == SeqMax([i \in 1..Len(paths) |-> target_bounds[i][4]])
        res == ResOf(paths[1])
        transform == FromOrigin(target_left, target_top, res[1], res[2])
        width == IntDiv(target_right - target_left, res[1])
        height == IntDiv(target_top - target_bottom, res[2])
    IN LazyLoaderRefer(to_string(target_crs), transform, <<width, height>>,
                       <<target_left, target_bottom, target_right, target_top>>, res)

\* readable: whether rasterio.open succeeds on every source
getReferenceFromFiles(readable) ==
    /\ op' = "getReferenceFromFiles"
    /\ pre_init' = sig_init
    /\ reads' = <<>>
    /\ nyield' = 0
    /\ IF files = <<>>
       THEN /\ err' = "value"
            /\ UNCHANGED <<reference, sig_init>>
       ELSE IF ~readable
       THEN /\ err' = "io"
            /\ UNCHANGED <<reference, sig_init>>
       ELSE /\ err' = "none"
            /\ sig_init' = FALSE
            /\ reference' = ReferenceFromFiles(files)
    /\ UNCHANGED <<limit, files, sorted_files, vrt_files, blocks, tmp, peer_vrt_files>>

----------------------------------------------------------------------------
(* init *)

\* the temporary directory after gdal.Warp wrote the VRTs of the first n
\* sources of the catalog for reference ref
WarpLoop(t, d, ref, n) ==
    LET written == { VrtPath(d[i].path) : i \in 1..n }
        last(v) == CHOOSE i \in 1..n :
                      /\ VrtPath(d[i].path) = v
                      /\ \A j \in 1..n : VrtPath(d[j].path) = v => j <= i
    IN [v \in DOMAIN t \cup written |->
            IF v \in written
            THEN [src |-> d[last(v)].path, ref |-> ref]
            ELSE t[v]]

\* the block count rounded down: a last, partial block is dropped
BlockCount_Floor(size, lim) == size \div lim

\* x_blocks, y_blocks of init
BlockCount(size, lim) == (size + lim - 1) \div lim

\* [(x, y) for x in range(x_blocks) for y in range(y_blocks)]
Blocks(shape, lim) ==
    LET x_blocks == BlockCount(shape[1], lim[1])
        y_blocks == BlockCount(shape[2], lim[2])
    IN IF x_blocks <= 0 \/ y_blocks <= 0 THEN <<>>
       ELSE [k \in 1..(x_blocks * y_blocks) |->
                <<(k - 1) \div y_blocks, (k - 1) % y_blocks>>]

\* init testing for the reference only after the loop that builds the views
init_LateCheck(fail) ==
    /\ Len(vrt_files) + Len(files) <= MaxViews
    /\ op' = "init"
    /\ pre_init' = sig_init
    /\ reads' = <<>>
    /\ nyield' = 0
    /\ LET built == Min(fail - 1, Len(files))
       IN /\ sorted_files' = SortedKeys(Keys(files))
          /\ vrt_files' = vrt_files \o [i \in 1..built |-> VrtPath(files[i].path)]
          /\ tmp' = WarpLoop(tmp, files, reference, built)
          /\ IF fail <= Len(files)
             THEN /\ err' = "align"
                  /\ UNCHANGED <<sig_init, blocks>>
             ELSE IF reference = None
             THEN /\ err' = "precondition"
                  /\ UNCHANGED <<sig_init, blocks>>
             ELSE /\ err' = "none"
                  /\ blocks' = Blocks(reference.shape, limit)
                  /\ sig_init' = TRUE
    /\ UNCHANGED <<limit, reference, files, peer_vrt_files>>

\* fail: index of the first source gdal cannot open or warp; beyond
\* Len(files) when every source can be aligned.  The first conjunct bounds the model.
init(fail) ==
    /\ Len(vrt_files) + Len(files) <= MaxViews
    /\ op' = "init"
    /\ pre_init' = sig_init
    /\ reads' = <<>>
    /\ nyield' = 0
    /\ IF reference = None
       THEN /\ err' = "precondition"
            /\ UNCHANGED <<sig_init, sorted_files, vrt_files, blocks, tmp>>
       ELSE LET built == Min(fail - 1, Len(files))
            IN /\ sorted_files' = SortedKeys(Keys(files))
               /\ vrt_files' = vrt_files \o [i \in 1..built |-> VrtPath(files[i].path)]
               /\ tmp' = WarpLoop(tmp, files, reference, built)
               /\ IF fail <= Len(files)
                  THEN /\ err' = "align"
                       /\ UNCHANGED <<sig_init, blocks>>
                  ELSE /\ err' = "none"
                       /\ blocks' = Blocks(reference.shape, limit)
                       /\ sig_init' = TRUE
    /\ UNCHANGED <<limit, reference, files, peer_vrt_files>>

----------------------------------------------------------------------------
(* getWindow, getBlock, __iter__ *)

\* Window(col_off, row_off, width, height)
Window(col_off, row_off, width, height) ==
    [col_off |-> col_off, row_off |-> row_off, width |-> width, height |-> height]

\* getWindow without the clipping of the last column and row
getWindow_NoClip(index) ==
    LET x_start == index[1] * limit[1]
        y_start == index[2] * limit[2]
    IN Window(x_start, y_start, limit[1], limit[2])

getWindow(index) ==
    LET x_start == index[1] * limit[1]
        y_start == index[2] * limit[2]
        x_size == Min(limit[1], reference.shape[1] - x_start)
        y_size == Min(limit[2], reference.shape[2] - y_start)
    IN Window(x_start, y_start, x_size, y_size)

\* src.read(window=...) on the VRT at vrt_file: the pixels of the source
\* that was warped into it, on the grid it was warped to
Read(vrt_file, window) ==
    [vrt |-> vrt_file, src |-> tmp[vrt_file].src, ref |-> tmp[vrt_file].ref,
     window |-> window]

\* number of views getBlock reads before rasterio.open fails on a missing VRT
Readable ==
    LET missing == { i \in 1..Len(vrt_files) : vrt_files[i] \notin DOMAIN tmp }
    IN IF missing = {} THEN Len(vrt_files)
       ELSE (CHOOSE i \in missing : \A j \in missing : i <= j) - 1

\* getBlock moving one block to the right from one view to the next
TimeSeries_PerView(index) ==
    [i \in 1..Readable |->
        Read(vrt_files[i], getWindow(<<index[1] + i - 1, index[2]>>))]

\* the reads of one getBlock call, in order
TimeSeries(index) == [i \in 1..Readable |-> Read(vrt_files[i], getWindow(index))]

\* getBlock without the test of sig_init
getBlock_NoGuard(index) ==
    /\ op' = "getBlock"
    /\ pre_init' = sig_init
    /\ nyield' = 0
    /\ err' = IF Readable < Len(vrt_files) THEN "io" ELSE "none"
    /\ reads' = TimeSeries(index)
    /\ UNCHANGED <<loader, tmp, peer_vrt_files>>

getBlock(index) ==
    /\ op' = "getBlock"
    /\ pre_init' = sig_init
    /\ nyield' = 0
    /\ IF ~sig_init
       THEN /\ err' = "precondition"
            /\ reads' = <<>>
       ELSE /\ err' = IF Readable < Len(vrt_files) THEN "io" ELSE "none"
            /\ reads' = TimeSeries(index)
    /\ UNCHANGED <<loader, tmp, peer_vrt_files>>

\* concatenation of the reads of the first n blocks
RECURSIVE IterReads(_)
IterReads(n) ==
    IF n = 0 THEN <<>> ELSE IterReads(n - 1) \o TimeSeries(blocks[n])

\* an iteration that consumes self.blocks like a one-shot cursor
Iter_Exhaust ==
    /\ op' = "__iter__"
    /\ pre_init' = sig_init
    /\ IF blocks = <<>>
       THEN /\ err' = "none"
            /\ reads' = <<>>
            /\ nyield' = 0
            /\ UNCHANGED blocks
       ELSE IF ~sig_init
       THEN /\ err' = "precondition"
            /\ reads' = <<>>
            /\ nyield' = 0
            /\ UNCHANGED blocks
       ELSE IF Readable < Len(vrt_files)
       THEN /\ err' = "io"
            /\ reads' = TimeSeries(blocks[1])
            /\ nyield' = 0
            /\ UNCHANGED blocks
       ELSE /\ err' = "none"
            /\ reads' = IterReads(Len(blocks))
            /\ nyield' = Len(blocks)
            /\ blocks' = <<>>
    /\ UNCHANGED <<limit, reference, sig_init, files, sorted_files, vrt_files,
                   tmp, peer_vrt_files>>

\* a consumer drains the generator; the first getBlock that raises ends it
Iter ==
    /\ op' = "__iter__"
    /\ pre_init' = sig_init
    /\ IF blocks = <<>>
       THEN /\ err' = "none"
            /\ reads' = <<>>
            /\ nyield' = 0
       ELSE IF ~sig_init
       THEN /\ err' = "precondition"
            /\ reads' = <<>>
            /\ nyield' = 0
       ELSE IF Readable < Len(vrt_files)
       THEN /\ err' = "io"
            /\ reads' = TimeSeries(blocks[1])
            /\ nyield' = 0
       ELSE /\ err' = "none"
            /\ reads' = IterReads(Len(blocks))
            /\ nyield' = Len(blocks)
    /\ UNCHANGED <<loader, tmp, peer_vrt_files>>

----------------------------------------------------------------------------
(* __del__ *)

\* the entries of vrt_files on which os.remove raises OSError: the file is
\* not in the temporary directory, or an earlier turn of the loop removed it
RemoveFails ==
    { i \in 1..Len(vrt_files) :
        \/ vrt_files[i] \notin DOMAIN tmp
        \/ \E j \in 1..(i - 1) : vrt_files[j] = vrt_files[i] }

\* __del__ without the try/except: the first OSError ends the loop and
\* reaches the caller
Del_NoTry ==
    LET stop == IF RemoveFails = {} THEN Len(vrt_files) + 1
                ELSE CHOOSE i \in RemoveFails : \A j \in RemoveFails : i <= j
    IN /\ op' = "__del__"
       /\ pre_init' = sig_init
       /\ err' = IF RemoveFails = {} THEN "none" ELSE "oserror"
       /\ reads' = <<>>
       /\ nyield' = 0
       /\ tmp' = [v \in DOMAIN tmp \ { vrt_files[i] : i \in 1..(stop - 1) } |-> tmp[v]]
       /\ UNCHANGED <<loader, peer_vrt_files>>

\* os.remove on every entry of vrt_files; OSError is swallowed
Del ==
    /\ op' = "__del__"
    /\ pre_init' = sig_init
    /\ err' = "none"
    /\ reads' = <<>>
    /\ nyield' = 0
    /\ tmp' = [v \in DOMAIN tmp \ { vrt_files[i] : i \in 1..Len(vrt_files) } |-> tmp[v]]
    /\ UNCHANGED <<loader, peer_vrt_files>>

----------------------------------------------------------------------------
(* The loader under an arbitrary caller *)

Next ==
    \/ \E dir \in Dirs, scan \in Scans : addFilesFromPath(dir, TRUE, scan)
    \/ \E dir \in Dirs : addFilesFromPath(dir, FALSE, <<>>)
    \/ \E ref \in RefInputs : setReference(ref)
    \/ \E readable \in BOOLEAN : getReferenceFromFiles(readable)
    \/ \E fail \in 1..(MaxDate + 1) : init(fail)
    \/ \E index \in TileIndices : getBlock(index)
    \/ Iter
    \/ Del

Spec == Init /\ [][Next]_vars

----------------------------------------------------------------------------
(* A second LazyLoader in the same process.  Its catalog holds one file of  *)
(* another directory whose base name also occurs in the first loader's     *)
(* directory; both loaders write their VRTs into tempfile.gettempdir().    *)

\* self.files of the second loader
PeerFiles == << [date |-> 1, path |-> <<2, 1>>] >>

\* self._reference of the second loader
PeerReference == CHOOSE ref \in RefInputs : TRUE

\* init() of the second loader
PeerInit ==
    /\ Len(peer_vrt_files) + Len(PeerFiles) <= MaxViews
    /\ op' = "peer.init"
    /\ pre_init' = sig_init
    /\ err' = "none"
    /\ reads' = <<>>
    /\ nyield' = 0
    /\ peer_vrt_files' =
          peer_vrt_files \o [i \in 1..Len(PeerFiles) |-> VrtPath(PeerFiles[i].path)]
    /\ tmp' = WarpLoop(tmp, PeerFiles, PeerReference, Len(PeerFiles))
    /\ UNCHANGED loader

\* __del__ of the second loader
PeerDel ==
    /\ op' = "peer.__del__"
    /\ pre_init' = sig_init
    /\ err' = "none"
    /\ reads' = <<>>
    /\ nyield' = 0
    /\ tmp' = [v \in DOMAIN tmp \ { peer_vrt_files[i] : i \in 1..Len(peer_vrt_files) } |-> tmp[v]]
    /\ UNCHANGED <<loader, peer_vrt_files>>

NextTwo ==
    \/ \E dir \in Dirs, scan \in Scans : addFilesFromPath(dir, TRUE, scan)
    \/ \E ref \in RefInputs : setReference(ref)
    \/ \E fail \in 1..(MaxDate + 1) : init(fail)
    \/ \E index \in TileIndices : getBlock(index)
    \/ Del
    \/ PeerInit
    \/ PeerDel

SpecTwo == Init /\ [][NextTwo]_vars

----------------------------------------------------------------------------
(* Tile planning: loaders constructed with any limit, holding one file and *)
(* a reference of any shape, are initialised, read and iterated.           *)

ShapeInputs == ((1..MaxSide) \X (1..MaxSide)) \cup { <<10, 10>> }
LimitInputs == ((1..MaxLimit) \X (1..MaxLimit)) \cup { <<4, 4>> }

\* a north-up reference of the given shape with pixels of size 1
PlanReference(shape) ==
    LazyLoaderRefer("EPSG:1", FromOrigin(0, shape[2], 1, 1), shape,
                    <<0, 0, shape[1], shape[2]>>, <<1, 1>>)

InitPlan ==
    /\ limit \in LimitInputs
    /\ reference \in { PlanReference(shape) : shape \in ShapeInputs }
    /\ sig_init = FALSE
    /\ files = << [date |-> 1, path |-> <<1, 1>>] >>
    /\ sorted_files = <<>>
    /\ vrt_files = <<>>
    /\ blocks = <<>>
    /\ tmp = <<>>
    /\ op = "setReference"
    /\ err = "none"
    /\ reads = <<>>
    /\ nyield = 0
    /\ pre_init = FALSE
    /\ peer_vrt_files = <<>>

NextPlan ==
    \/ \E fail \in 1..2 : init(fail)
    \/ \E index \in TileIndices : getBlock(index)
    \/ Iter

SpecPlan == InitPlan /\ [][NextPlan]_vars

----------------------------------------------------------------------------
(* Reference resolution: getReferenceFromFiles on any catalog of up to     *)
(* MaxSources files taken from two directories.                            *)

ResolvePaths == { <<1, 1>>, <<1, 2>>, <<2, 1>>, <<2, 2>> }

\* the catalogs: file i was added i-th, under date i
CatalogInputs ==
    UNION { [1..n -> { [date |-> d, path |-> p] : d \in 1..MaxSources, p \in ResolvePaths }] :
              n \in 0..MaxSources }

InitResolve ==
    /\ limit \in Limits
    /\ reference = None
    /\ sig_init = FALSE
    /\ files \in { c \in CatalogInputs : \A i \in 1..Len(c) : c[i].date = i }
    /\ sorted_files = <<>>
    /\ vrt_files = <<>>
    /\ blocks = <<>>
    /\ tmp = <<>>
    /\ op = "addFilesFromPath"
    /\ err = "none"
    /\ reads = <<>>
    /\ nyield = 0
    /\ pre_init = FALSE
    /\ peer_vrt_files = <<>>

NextResolve ==
    \E readable \in BOOLEAN : getReferenceFromFiles(readable)

SpecResolve == InitResolve /\ [][NextResolve]_vars

----------------------------------------------------------------------------
(* Properties *)

\* the path cataloged under the k-th earliest date
KthEarliest(k) ==
    LET date == SortedKeys(Keys(files))[k]
        i == CHOOSE j \in 1..Len(files) : files[j].date = date
    IN files[i].path

\* C1: whenever getBlock succeeds, the returned stack has exactly one slice
\* per file of the catalog.
C1_OneSlicePerFile ==
    (op = "getBlock" /\ err = "none") => Len(reads) = Len(files)

\* C2: whenever getBlock succeeds, slice k of the returned stack is read from
\* the view of the catalog file with the k-th earliest date.
C2_SlicesChronological ==
    (op = "getBlock" /\ err = "none") =>
        \A k \in 1..Min(Len(reads), Len(files)) : reads[k].src = KthEarliest(k)

\* C3: every operation that replaces the reference, setReference as well as
\* getReferenceFromFiles, leaves sig_init false.
C3_ReferenceChangeClearsReady ==
    (op \in {"setReference", "getReferenceFromFiles"} /\ err = "none") => ~sig_init

\* C4: a second init() directly after a successful init() leaves the same
\* blocks, the same number of vrt_files and the same number of temporary
\* files as the first.
C4_InitIdempotent ==
    [][(op = "init" /\ err = "none" /\ op' = "init" /\ err' = "none") =>
          /\ blocks' = blocks
          /\ Len(vrt_files') = Len(vrt_files)
          /\ Cardinality(DOMAIN tmp') = Cardinality(DOMAIN tmp)]_vars

\* C5: init() on an empty catalog fails with the precondition error and does
\* not set sig_init.
C5_InitEmptyCatalogFails ==
    (op = "init" /\ files = <<>>) => (err = "precondition" /\ ~sig_init)

\* C6: whenever init() fails, sig_init is false afterwards, also when the
\* loader was ready before the call.
C6_FailedInitClearsReady ==
    (op = "init" /\ err # "none") => ~sig_init

\* C7: iterating over a loader whose sig_init is false fails with the
\* precondition error.
C7_IterationRequiresReady ==
    (op = "__iter__" /\ ~sig_init) => err = "precondition"

\* C8: in every state where sig_init is false, getBlock on any index fails
\* with the precondition error, reads no view and leaves the loader and the
\* temporary files unchanged.
C8_GetBlockRequiresReady ==
    [][(op' = "getBlock" /\ ~sig_init) =>
          /\ err' = "precondition"
          /\ reads' = <<>>
          /\ UNCHANGED <<loader, tmp>>]_vars

\* a getBlock refused on a loader that holds views, all of them on disk
C8_Witness ==
    /\ op = "getBlock"
    /\ err = "precondition"
    /\ vrt_files # <<>>
    /\ Readable = Len(vrt_files)

\* C9: every successful addFilesFromPath leaves sig_init false, even when it
\* added no file; from then on getBlock fails with the precondition error
\* and only a successful init() makes sig_init true again.
C9_AddClearsReady ==
    [][/\ (op' = "addFilesFromPath" /\ err' = "none") => ~sig_init'
       /\ (~sig_init /\ sig_init') => (op' = "init" /\ err' = "none")
       /\ (op' = "getBlock" /\ ~sig_init) => err' = "precondition"]_vars

\* a successful addFilesFromPath on a loader that was ready and holds views
C9_Witness ==
    /\ op = "addFilesFromPath"
    /\ err = "none"
    /\ pre_init
    /\ ~sig_init
    /\ vrt_files # <<>>

\* C10: init() without a reference fails with the precondition error before
\* it builds any view, and leaves sig_init, vrt_files, the temporary files
\* and blocks unchanged.
C10_InitWithoutReference ==
    [][(op' = "init" /\ reference = None) =>
          /\ err' = "precondition"
          /\ UNCHANGED <<sig_init, vrt_files, blocks, tmp>>]_vars

\* an init() refused for the missing reference on a non-empty catalog
C10_Witness ==
    /\ op = "init"
    /\ err = "precondition"
    /\ reference = None
    /\ files # <<>>

\* C11: an init() on a loader that already holds views releases every one
\* of them before it builds new ones: afterwards vrt_files holds only views
\* this call built, one per source in catalog order.
C11_ReinitReleasesOldViews ==
    [][(op' = "init" /\ err' # "precondition" /\ vrt_files # <<>>) =>
          /\ Len(vrt_files') <= Len(files)
          /\ \A i \in 1..Len(vrt_files') : vrt_files'[i] = VrtPath(files[i].path)]_vars

\* C12: every view is released exactly once: no os.remove of a teardown is
\* a second attempt on a view already released, and the teardown leaves no
\* view of the loader on disk.
C12_ReleasedExactlyOnce ==
    [][op' = "__del__" =>
          /\ RemoveFails = {}
          /\ \A i \in 1..Len(vrt_files) : vrt_files[i] \notin DOMAIN tmp']_vars

C14_PeerLeavesViewsAlone ==
    [][(op' \in {"peer.init", "peer.__del__"} /\ sig_init) =>
          \A i \in 1..Len(vrt_files) :
              vrt_files[i] \in DOMAIN tmp =>
                  /\ vrt_files[i] \in DOMAIN tmp'
                  /\ tmp'[vrt_files[i]] = tmp[vrt_files[i]]]_vars

\* ceil(a / b) for a >= 0, b > 0: the least n with n * b >= a
CeilDiv(a, b) == CHOOSE n \in 0..a : n * b >= a /\ (n - 1) * b < a

\* C15: init() sets blocks to (x, y) for x in [0, ceil(width/maxW)) and y in
\* [0, ceil(height/maxH)), x outer and y inner, each tile once; shape
\* (10,10) with limit (4,4) gives (0,0),(0,1),(0,2),(1,0),...,(2,2).
C15_TilePlan ==
    (op = "init" /\ err = "none") =>
        LET cx == CeilDiv(reference.shape[1], limit[1])
            cy == CeilDiv(reference.shape[2], limit[2])
        IN /\ Len(blocks) = cx * cy
           /\ \A x \in 0..(cx - 1), y \in 0..(cy - 1) : blocks[x * cy + y + 1] = <<x, y>>
           /\ (reference.shape = <<10, 10>> /\ limit = <<4, 4>>) =>
                 blocks = << <<0, 0>>, <<0, 1>>, <<0, 2>>, <<1, 0>>, <<1, 1>>,
                             <<1, 2>>, <<2, 0>>, <<2, 1>>, <<2, 2>> >>

\* the example of the specification has been planned
C15_Witness ==
    /\ op = "init"
    /\ err = "none"
    /\ reference.shape = <<10, 10>>
    /\ limit = <<4, 4>>
    /\ Len(blocks) = 9

\* pixel (px, py) lies in window w
InWindow(px, py, w) ==
    /\ w.col_off <= px /\ px < w.col_off + w.width
    /\ w.row_off <= py /\ py < w.row_off + w.height

\* C19: the windows of the planned tiles partition the grid: each is between
\* 1 and the limit wide and high, lies inside the grid, and every pixel of
\* the grid lies in exactly one of them.
C19_WindowsPartitionGrid ==
    (op = "init" /\ err = "none") =>
        /\ \A k \in 1..Len(blocks) :
              LET w == getWindow(blocks[k])
              IN /\ 1 <= w.width /\ w.width <= limit[1]
                 /\ 1 <= w.height /\ w.height <= limit[2]
                 /\ 0 <= w.col_off /\ w.col_off + w.width <= reference.shape[1]
                 /\ 0 <= w.row_off /\ w.row_off + w.height <= reference.shape[2]
        /\ \A px \in 0..(reference.shape[1] - 1), py \in 0..(reference.shape[2] - 1) :
              Cardinality({ k \in 1..Len(blocks) :
                              InWindow(px, py, getWindow(blocks[k])) }) = 1

\* a plan of several tiles whose last column and last row are clipped
C19_Witness ==
    /\ op = "init"
    /\ err = "none"
    /\ Len(blocks) > 1
    /\ getWindow(blocks[Len(blocks)]).width < limit[1]
    /\ getWindow(blocks[Len(blocks)]).height < limit[2]

\* C16: a full iteration over a ready loader changes nothing of the loader
\* or of its views and yields one stack per block; an iteration that follows
\* a complete one issues the same reads and yields the same number of stacks.
C16_IterationRestartable ==
    [][(op' = "__iter__" /\ sig_init) =>
          /\ UNCHANGED <<loader, tmp>>
          /\ err' = "none" => nyield' = Len(blocks)
          /\ (op = "__iter__" /\ err = "none") =>
                (err' = "none" /\ reads' = reads /\ nyield' = nyield)]_vars

\* a complete iteration of several blocks over a ready loader with views
C16_Witness ==
    /\ op = "__iter__"
    /\ err = "none"
    /\ sig_init
    /\ nyield > 1
    /\ vrt_files # <<>>
    /\ Len(reads) = nyield * Len(vrt_files)

\* C20: a successful getBlock reads every view with one and the same window,
\* the one getWindow computes for the index from the limit and the current
\* reference shape, and changes neither of these.
C20_OneWindowPerBlock ==
    [][(op' = "getBlock" /\ err' = "none") =>
          /\ UNCHANGED <<limit, reference>>
          /\ Len(reads') = Len(vrt_files)
          /\ \E index \in TileIndices :
                \A i \in 1..Len(reads') : reads'[i].window = getWindow(index)]_vars

\* a getBlock that read two views
C20_Witness ==
    /\ op = "getBlock"
    /\ err = "none"
    /\ Len(reads) >= 2

\* the native projections of the catalog, in iteration order
CrsList == [i \in 1..Len(files) |-> CrsOf(files[i].path)]

\* the most frequent element of a non-empty sequence; among the most
\* frequent ones the one that occurs first
Mode(seq) ==
    LET freq(c) == Cardinality({ i \in 1..Len(seq) : seq[i] = c })
        first(c) == CHOOSE i \in 1..Len(seq) :
                       seq[i] = c /\ \A j \in 1..(i - 1) : seq[j] # c
        elems == { seq[i] : i \in 1..Len(seq) }
    IN CHOOSE c \in elems :
          \A d \in elems :
              \/ freq(d) < freq(c)
              \/ freq(d) = freq(c) /\ first(c) <= first(d)

\* C17: getReferenceFromFiles selects the most frequent native projection
\* and, among equally frequent ones, the one met first: [A,A,B], [A,B] and
\* [B,A,A] all give A.
C17_ModeProjection ==
    (op = "getReferenceFromFiles" /\ err = "none") =>
        /\ reference.crs = to_string(Mode(CrsList))
        /\ CrsList \in { <<1, 1, 2>>, <<1, 2>>, <<2, 1, 1>> } => reference.crs = "EPSG:1"

\* a resolution that had to break a tie between two projections
C17_Witness ==
    /\ op = "getReferenceFromFiles"
    /\ err = "none"
    /\ CrsList = <<1, 2>>
    /\ reference.crs = "EPSG:1"

\* the union of the bounds of the catalog in projection crs
UnionBounds(crs) ==
    LET b(i) == TargetBounds(files[i].path, crs)
        n == Len(files)
    IN << CHOOSE x \in { b(i)[1] : i \in 1..n } : \A i \in 1..n : x <= b(i)[1],
          CHOOSE x \in { b(i)[2] : i \in 1..n } : \A i \in 1..n : x <= b(i)[2],
          CHOOSE x \in { b(i)[3] : i \in 1..n } : \A i \in 1..n : x >= b(i)[3],
          CHOOSE x \in { b(i)[4] : i \in 1..n } : \A i \in 1..n : x >= b(i)[4] >>

====
